---- MODULE Spec2Model ----
(***************************************************************************)
(* Model of the Varnan transliteration back end:                           *)
(*   src/transliteration/formatters.py  TransliterationFormatter           *)
(*   src/transliteration/views.py       transliterate_image,               *)
(*                                      transliterate_single               *)
(*                                                                         *)
(* A text is a sequence of Unicode code points (Python ord()).  Script     *)
(* codes and language tags are strings.  A Python dict is a sequence of    *)
(* <<key, value>> pairs in insertion order.                                *)
(***************************************************************************)
EXTENDS Integers, Sequences, FiniteSets, TLC

(***************************************************************************)
(* Python str primitives over code points.  The alphabet covered is ASCII, *)
(* the Latin letters with diacritics that occur in the formatter's tables  *)
(* (with their capitals), and the Indic blocks U+0900..U+0D7F (caseless).  *)
(***************************************************************************)

\* the lower-case Latin letters with diacritics of the formatter's tables
DiacriticLower ==
    {242, 257, 275, 299, 333, 363,
     7693, 7717, 7735, 7739, 7745, 7747, 7749, 7751, 7771, 7773, 7779, 7789}

\* their capitals: each is the code point just below (U+00F2 is 32 above)
DiacriticUpper ==
    {210, 256, 274, 298, 332, 362,
     7692, 7716, 7734, 7738, 7744, 7746, 7748, 7750, 7770, 7772, 7778, 7788}

\* [A-Z]
IsAsciiUpper(c) == c >= 65 /\ c <= 90

\* [a-z]
IsAsciiLower(c) == c >= 97 /\ c <= 122

\* str.isupper() of one character
IsUpperChar(c) == IsAsciiUpper(c) \/ c \in DiacriticUpper

\* str.islower() of one character
IsLowerChar(c) == IsAsciiLower(c) \/ c \in DiacriticLower

\* the character is cased
IsCased(c) == IsUpperChar(c) \/ IsLowerChar(c)

\* the Indic Unicode blocks U+0900..U+0D7F (Devanagari .. Malayalam, Oriya included)
IsIndicBlock(c) == c >= 2304 /\ c <= 3455

\* str.isalpha() of one character that is cased: every cased character is a letter
IsAlpha(c) == IsCased(c)

\* the runs <<first, last>> of code points of U+0900..U+0D7F that are word
\* characters of a regular expression: the assigned letters, digits and number
\* signs of each block.  The vowel signs, the virama, the other marks, the
\* punctuation and the unassigned code points are not.
IndicWordRanges ==
    {
      <<2308, 2361>>, <<2365, 2365>>, <<2384, 2384>>, <<2392, 2401>>, <<2406, 2415>>,
      <<2417, 2432>>, <<2437, 2444>>, <<2447, 2448>>, <<2451, 2472>>, <<2474, 2480>>,
      <<2482, 2482>>, <<2486, 2489>>, <<2493, 2493>>, <<2510, 2510>>, <<2524, 2525>>,
      <<2527, 2529>>, <<2534, 2545>>, <<2548, 2553>>, <<2556, 2556>>, <<2565, 2570>>,
      <<2575, 2576>>, <<2579, 2600>>, <<2602, 2608>>, <<2610, 2611>>, <<2613, 2614>>,
      <<2616, 2617>>, <<2649, 2652>>, <<2654, 2654>>, <<2662, 2671>>, <<2674, 2676>>,
      <<2693, 2701>>, <<2703, 2705>>, <<2707, 2728>>, <<2730, 2736>>, <<2738, 2739>>,
      <<2741, 2745>>, <<2749, 2749>>, <<2768, 2768>>, <<2784, 2785>>, <<2790, 2799>>,
      <<2809, 2809>>, <<2821, 2828>>, <<2831, 2832>>, <<2835, 2856>>, <<2858, 2864>>,
      <<2866, 2867>>, <<2869, 2873>>, <<2877, 2877>>, <<2908, 2909>>, <<2911, 2913>>,
      <<2918, 2927>>, <<2929, 2935>>, <<2947, 2947>>, <<2949, 2954>>, <<2958, 2960>>,
      <<2962, 2965>>, <<2969, 2970>>, <<2972, 2972>>, <<2974, 2975>>, <<2979, 2980>>,
      <<2984, 2986>>, <<2990, 3001>>, <<3024, 3024>>, <<3046, 3058>>, <<3077, 3084>>,
      <<3086, 3088>>, <<3090, 3112>>, <<3114, 3129>>, <<3133, 3133>>, <<3160, 3162>>,
      <<3165, 3165>>, <<3168, 3169>>, <<3174, 3183>>, <<3192, 3198>>, <<3200, 3200>>,
      <<3205, 3212>>, <<3214, 3216>>, <<3218, 3240>>, <<3242, 3251>>, <<3253, 3257>>,
      <<3261, 3261>>, <<3293, 3294>>, <<3296, 3297>>, <<3302, 3311>>, <<3313, 3314>>,
      <<3332, 3340>>, <<3342, 3344>>, <<3346, 3386>>, <<3389, 3389>>, <<3406, 3406>>,
      <<3412, 3414>>, <<3416, 3425>>, <<3430, 3448>>, <<3450, 3455>>
    }

\* a regular-expression word character (\w): letters, digits, number signs
\* and underscore
IsWordChar(c) ==
    \/ IsCased(c)
    \/ c >= 48 /\ c <= 57
    \/ c = 95
    \/ /\ IsIndicBlock(c)
       /\ \E r \in IndicWordRanges : c >= r[1] /\ c <= r[2]

\* str.isspace() of one character: TAB..CR, FS..US, the space, NEL, the
\* no-break space and the Unicode space separators
IsSpace(c) ==
    \/ c >= 9 /\ c <= 13
    \/ c >= 28 /\ c <= 32
    \/ c \in {133, 160, 5760, 8232, 8233, 8239, 8287, 12288}
    \/ c >= 8192 /\ c <= 8202

\* str.lower() of one character
LowerChar(c) ==
    IF IsAsciiUpper(c) \/ c = 210 THEN c + 32
    ELSE IF c \in DiacriticUpper THEN c + 1
    ELSE c

\* str.upper() of one character
UpperChar(c) ==
    IF IsAsciiLower(c) \/ c = 242 THEN c - 32
    ELSE IF c \in DiacriticLower THEN c - 1
    ELSE c

\* str.lower()
Lower(s) == [i \in 1..Len(s) |-> LowerChar(s[i])]

\* str.isupper(): no lower-case character and at least one upper-case one
StrIsUpper(s) ==
    /\ \E i \in 1..Len(s) : IsUpperChar(s[i])
    /\ \A i \in 1..Len(s) : ~IsLowerChar(s[i])

\* str.islower(): no upper-case character and at least one lower-case one
StrIsLower(s) ==
    /\ \E i \in 1..Len(s) : IsLowerChar(s[i])
    /\ \A i \in 1..Len(s) : ~IsUpperChar(s[i])

\* str.title(): a cased character is upper-cased when the character before it
\* is not cased (or it is the first), and lower-cased otherwise
Title(s) ==
    [i \in 1..Len(s) |->
        IF i > 1 /\ IsCased(s[i-1]) THEN LowerChar(s[i]) ELSE UpperChar(s[i])]

\* `sub in s` for a non-empty sub
Contains(s, sub) ==
    \E i \in 1..(Len(s) - Len(sub) + 1) : SubSeq(s, i, i + Len(sub) - 1) = sub

\* the least element of a non-empty set of positions
Min(S) == CHOOSE m \in S : \A o \in S : m <= o

\* the positions from p on at which old occurs in s
Occurrences(s, old, p) ==
    {i \in p..(Len(s) - Len(old) + 1) : SubSeq(s, i, i + Len(old) - 1) = old}

\* str.replace(old, new) on s from position p on: the leftmost occurrence is
\* replaced and the scan resumes after it (non-overlapping, left to right)
RECURSIVE ReplaceFrom(_, _, _, _)
ReplaceFrom(s, old, new, p) ==
    IF Occurrences(s, old, p) = {} THEN SubSeq(s, p, Len(s))
    ELSE LET at == Min(Occurrences(s, old, p))
         IN  SubSeq(s, p, at - 1) \o new \o ReplaceFrom(s, old, new, at + Len(old))

\* str.replace(old, new) for a non-empty old
Replace(s, old, new) == ReplaceFrom(s, old, new, 1)

\* the positions at which a maximal run of non-whitespace characters begins
WordStarts(s) ==
    {i \in 1..Len(s) : ~IsSpace(s[i]) /\ (i = 1 \/ IsSpace(s[i-1]))}

\* the position at which the run beginning at b ends
WordEnd(s, b) ==
    Min({e \in b..Len(s) : e = Len(s) \/ IsSpace(s[e+1])})

\* the k-th smallest element of a set of positions
Nth(S, k) == CHOOSE m \in S : Cardinality({o \in S : o < m}) = k - 1

\* str.split(): the maximal runs of non-whitespace characters, in order
Split(s) ==
    [k \in 1..Cardinality(WordStarts(s)) |->
        SubSeq(s, Nth(WordStarts(s), k), WordEnd(s, Nth(WordStarts(s), k)))]

\* sep.join(parts[lo..hi]) for lo <= hi
RECURSIVE JoinRange(_, _, _, _)
JoinRange(parts, sep, lo, hi) ==
    IF lo = hi THEN parts[lo]
    ELSE JoinRange(parts, sep, lo, (lo + hi) \div 2) \o sep
             \o JoinRange(parts, sep, (lo + hi) \div 2 + 1, hi)

\* sep.join(parts)
Join(parts, sep) ==
    IF Len(parts) = 0 THEN <<>> ELSE JoinRange(parts, sep, 1, Len(parts))

\* ' '.join(s.split())
CollapseWhitespace(s) == Join(Split(s), <<32>>)

(***************************************************************************)
(* TransliterationFormatter: the tables of __init__, in dict order.        *)
(***************************************************************************)

\* self.character_replacements
character_replacements ==
    << <<  <<242>>, <<111>>      >>,   \* o-grave -> o
       << <<7739>>, <<108>>      >>,   \* l-macron-below -> l
       << <<7749>>, <<110, 103>> >>,   \* n-dot-above -> ng
       << <<7751>>, <<110>>      >>,   \* n-dot-below -> n
       << <<7789>>, <<116>>      >>,   \* t-dot-below -> t
       << <<7693>>, <<100>>      >>,   \* d-dot-below -> d
       << <<7779>>, <<115, 104>> >>,   \* s-dot-below -> sh
       << <<7747>>, <<109>>      >>,   \* m-dot-below -> m
       << <<7717>>, <<104>>      >>,   \* h-dot-below -> h
       << <<7745>>, <<109>>      >>,   \* m-dot-above -> m
       << <<7735>>, <<108>>      >>,   \* l-dot-below -> l
       << <<7771>>, <<114>>      >>,   \* r-dot-below -> r
       << <<7773>>, <<114>>      >>,   \* r-dot-below-macron -> r
       << <<73>>,   <<105>>      >>,   \* I -> i
       << <<65>>,   <<97>>       >>,   \* A -> a
       << <<85>>,   <<117>>      >>,   \* U -> u
       << <<69>>,   <<101>>      >>,   \* E -> e
       << <<79>>,   <<111>>      >> >> \* O -> o

\* self.vowel_length_mappings
vowel_length_mappings ==
    << << <<299>>,  <<101, 101>> >>,   \* i-macron -> ee
       << <<257>>,  <<97, 97>>   >>,   \* a-macron -> aa
       << <<363>>,  <<117, 117>> >>,   \* u-macron -> uu
       << <<275>>,  <<101, 101>> >>,   \* e-macron -> ee
       << <<333>>,  <<111, 111>> >>,   \* o-macron -> oo
       << <<7771>>, <<114, 105>> >>,   \* r-dot-below -> ri
       << <<7773>>, <<114, 105>> >> >> \* r-dot-below-macron -> ri

\* "Deepavali"
Deepavali == <<68, 101, 101, 112, 97, 118, 97, 108, 105>>

\* "Aveetalat"
Aveetalat == <<65, 118, 101, 101, 116, 97, 108, 97, 116>>

\* self.word_corrections
word_corrections ==
    << << <<100, 73, 112, 242, 118, 97, 76, 105>>,     Deepavali >>,  \* dIp(o-grave)vaLi
       << <<100, 299, 112, 242, 118, 97, 7739, 105>>,  Deepavali >>,
       << <<100, 73, 112, 65, 118, 97, 108, 73>>,      Deepavali >>,  \* dIpAvalI
       << <<100, 299, 112, 257, 118, 97, 108, 299>>,   Deepavali >>,
       << <<100, 73, 112, 65, 118, 97, 76, 105>>,      Deepavali >>,  \* dIpAvaLi
       << <<100, 299, 112, 257, 118, 97, 7739, 105>>,  Deepavali >>,
       << <<97, 118, 73, 116, 65, 108, 97, 116>>,      Aveetalat >>,  \* avItAlat
       << <<97, 118, 299, 116, 257, 108, 97, 116>>,    Aveetalat >>,
       << <<100, 105, 112, 97, 118, 97, 76, 105>>,     Deepavali >> >> \* dipavaLi

\* self.english_to_indian_corrections
english_to_indian_corrections ==
    << << <<67, 104, 97, 110, 103, 101, 115>>, <<2330, 2375, 2306, 2332, 2375, 2360>> >>, \* Changes
       << <<66, 104, 97, 116, 116, 97>>,       <<2349, 2335, 2381, 2335, 2366>>       >>, \* Bhatta
       << <<70, 97, 108, 108>>,                <<2347, 2377, 2354>>                   >>, \* Fall
       << <<72, 101, 108, 108, 111>>,          <<2361, 2375, 2354, 2379>>             >>, \* Hello
       << <<73, 110, 100, 105, 97>>,           <<2311, 2306, 2337, 2367, 2351, 2366>> >>, \* India
       << <<87, 101, 108, 99, 111, 109, 101>>, <<2357, 2375, 2354, 2325, 2350>>       >> >> \* Welcome

\* for old, new in table.items(): text = text.replace(old, new), from entry k
\* on in table order (nothing is left to replace in an empty text)
RECURSIVE ReplaceAll(_, _, _)
ReplaceAll(s, table, k) ==
    IF s = <<>> \/ k > Len(table) THEN s
    ELSE ReplaceAll(Replace(s, table[k][1], table[k][2]), table, k + 1)

\* one pass of the word-corrections loop, for entry k: the test is
\* case-insensitive, the replacement is not
CorrectWord(s, k) ==
    IF Contains(Lower(s), Lower(word_corrections[k][1]))
    THEN Replace(s, word_corrections[k][1], word_corrections[k][2])
    ELSE s

\* the word-corrections loop from entry k on, in table order
RECURSIVE ApplyWordCorrections(_, _)
ApplyWordCorrections(s, k) ==
    IF s = <<>> \/ k > Len(word_corrections) THEN s
    ELSE ApplyWordCorrections(CorrectWord(s, k), k + 1)

\* one pass of the English-to-Indian loop, for entry k: the test and the
\* replacement are both exact
CorrectEnglishWord(s, k) ==
    IF Contains(s, english_to_indian_corrections[k][1])
    THEN Replace(s, english_to_indian_corrections[k][1],
                 english_to_indian_corrections[k][2])
    ELSE s

\* the English-to-Indian loop from entry k on, in table order
RECURSIVE ApplyEnglishToIndian(_, _)
ApplyEnglishToIndian(s, k) ==
    IF s = <<>> \/ k > Len(english_to_indian_corrections) THEN s
    ELSE ApplyEnglishToIndian(CorrectEnglishWord(s, k), k + 1)

\* a character of one of the ranges named
InRange(c, lo, hi) == c >= lo /\ c <= hi

\* is_indian_script of clean_transliteration: Devanagari, Telugu, Tamil,
\* Kannada and Gujarati only
is_indian_script(s) ==
    \E i \in 1..Len(s) :
        \/ InRange(s[i], 2304, 2431)    \* \u0900-\u097f
        \/ InRange(s[i], 3072, 3199)    \* \u0c00-\u0c7f
        \/ InRange(s[i], 2944, 3071)    \* \u0b80-\u0bff
        \/ InRange(s[i], 3200, 3327)    \* \u0c80-\u0cff
        \/ InRange(s[i], 2688, 2815)    \* \u0a80-\u0aff

\* has_english_caps of clean_transliteration
has_english_caps(s) ==
    \E i \in 1..Len(s) : IsUpperChar(s[i]) /\ IsAlpha(s[i])

\* has_indian_script of clean_transliteration: Devanagari, Telugu and Tamil only
has_indian_script(s) ==
    \E i \in 1..Len(s) :
        \/ InRange(s[i], 2304, 2431)
        \/ InRange(s[i], 3072, 3199)
        \/ InRange(s[i], 2944, 3071)

\* the character class indian_scripts of _clean_indian_script: eight blocks,
\* U+0900..U+0AFF and U+0B80..U+0D7F (the Oriya block U+0B00..U+0B7F is not one)
InIndianScripts(c) == InRange(c, 2304, 2815) \/ InRange(c, 2944, 3455)

\* \b between positions i-1 and i of s, and between i and i+1
WordBoundaryBefore(s, i) == (i = 1 \/ ~IsWordChar(s[i-1])) /\ IsWordChar(s[i])
WordBoundaryAfter(s, i) == (i = Len(s) \/ ~IsWordChar(s[i+1])) /\ IsWordChar(s[i])

\* re.sub(f'([A-Z])({indian_scripts})', lambda m: m.group(1).lower() + m.group(2), s)
\* group 1 is the capital, group 2 the Indic character.  No two matches share a
\* character (a capital is not Indic), so every match is rewritten.
SubCapitalBefore(s) ==
    [i \in 1..Len(s) |->
        IF i < Len(s) /\ IsAsciiUpper(s[i]) /\ InIndianScripts(s[i+1])
        THEN s[i] + 32 ELSE s[i]]

\* re.sub(f'({indian_scripts})([A-Z])', lambda m: m.group(1) + m.group(2).lower(), s)
\* indian_scripts carries its own parentheses, so group 1 and group 2 are both
\* the Indic character and the capital is group 3, which the lambda drops: the
\* capital is replaced by a copy of the Indic character before it.  No two
\* matches share a character.
SubCapitalAfter(s) ==
    [i \in 1..Len(s) |->
        IF i > 1 /\ InIndianScripts(s[i-1]) /\ IsAsciiUpper(s[i])
        THEN s[i-1] ELSE s[i]]

\* the positions from p on where Indic, capital, Indic follow one another
BetweenMatches(s, p) ==
    {i \in p..(Len(s) - 2) :
        InIndianScripts(s[i]) /\ IsAsciiUpper(s[i+1]) /\ InIndianScripts(s[i+2])}

\* re.sub(f'({indian_scripts})([A-Z])({indian_scripts})',
\*        lambda m: m.group(1) + m.group(2).lower() + m.group(3), s)  from p on:
\* groups 1 and 2 are the first Indic character, group 3 is the capital
RECURSIVE SubCapitalBetween(_, _)
SubCapitalBetween(s, p) ==
    IF BetweenMatches(s, p) = {} THEN SubSeq(s, p, Len(s))
    ELSE LET at == Min(BetweenMatches(s, p))
         IN  SubSeq(s, p, at - 1) \o <<s[at], s[at], s[at+1]>>
                 \o SubCapitalBetween(s, at + 3)

\* re.sub(r'\b[A-Z]\b', lambda m: m.group(0).lower(), s)
SubStandaloneCapital(s) ==
    [i \in 1..Len(s) |->
        IF IsAsciiUpper(s[i]) /\ WordBoundaryBefore(s, i) /\ WordBoundaryAfter(s, i)
        THEN s[i] + 32 ELSE s[i]]

\* _clean_indian_script: the four re.sub passes, each on the output of the one before
clean_indian_script(s) ==
    SubStandaloneCapital(SubCapitalBetween(SubCapitalAfter(SubCapitalBefore(s)), 1))

\* FormatWord without the length test: a word is title-cased for a doubled
\* vowel or for being all lowercase only
FormatWord_any_length(word) ==
    IF StrIsUpper(word) \/ (IsUpperChar(word[1]) /\ StrIsLower(Tail(word)))
    THEN word
    ELSE IF \/ \E v \in {97, 101, 105, 111, 117} : Contains(word, <<v, v>>)
            \/ StrIsLower(word)
         THEN Title(word)
         ELSE word

\* the title-case heuristic of _format_for_english for one word
FormatWord(word) ==
    IF StrIsUpper(word) \/ (IsUpperChar(word[1]) /\ StrIsLower(Tail(word)))
    THEN word
    ELSE IF \/ \E v \in {97, 101, 105, 111, 117} : Contains(word, <<v, v>>)
            \/ Len(word) > 4
            \/ StrIsLower(word)
         THEN Title(word)
         ELSE word

\* _format_for_english
format_for_english(s) ==
    LET t     == ReplaceAll(s, vowel_length_mappings, 1)
        words == Split(t)
    IN  Join([i \in 1..Len(words) |-> FormatWord(words[i])], <<32>>)

\* target_script in ['roman', 'english', 'ITRANS', 'Latin'] or str(target_script) in [...]
IsRomanTarget(target_script) == target_script \in {"roman", "english", "ITRANS", "Latin"}

\* clean_transliteration
clean_transliteration(text, target_script) ==
    IF text = <<>> THEN text
    ELSE LET cleaned ==
                 IF is_indian_script(text) THEN clean_indian_script(text)
                 ELSE LET c1 == ApplyWordCorrections(text, 1)
                          c2 == IF has_english_caps(c1) /\ has_indian_script(c1)
                                THEN ApplyEnglishToIndian(c1, 1)
                                ELSE c1
                          c3 == ReplaceAll(c2, character_replacements, 1)
                      IN  IF IsRomanTarget(target_script)
                          THEN format_for_english(c3) ELSE c3
         IN  CollapseWhitespace(cleaned)

(***************************************************************************)
(* TransliterationFormatter: the pronunciation guide.                      *)
(***************************************************************************)

\* the replacements of add_pronunciation_guide, in the order it makes them
pronunciation_replacements ==
    << << <<97, 97>>,   <<97, 97, 32, 40, 97, 115, 32, 105, 110, 32, 99, 97, 114, 41>> >>,      \* aa -> "aa (as in car)"
       << <<101, 101>>, <<101, 101, 32, 40, 97, 115, 32, 105, 110, 32, 115, 101, 101, 41>> >>,      \* ee -> "ee (as in see)"
       << <<105, 105>>, <<105, 105, 32, 40, 97, 115, 32, 105, 110, 32, 115, 107, 105, 41>> >>,      \* ii -> "ii (as in ski)"
       << <<111, 111>>, <<111, 111, 32, 40, 97, 115, 32, 105, 110, 32, 116, 111, 111, 41>> >>,      \* oo -> "oo (as in too)"
       << <<117, 117>>, <<117, 117, 32, 40, 97, 115, 32, 105, 110, 32, 98, 108, 117, 101, 41>> >> >>    \* uu -> "uu (as in blue)"

\* the local pronunciation of add_pronunciation_guide: text.lower() with the
\* replacements made.  The method builds it and does not put it in its result.
pronunciation(text) == ReplaceAll(Lower(text), pronunciation_replacements, 1)

\* char.lower() in 'aeiou'
IsVowel(c) == LowerChar(c) \in {97, 101, 105, 111, 117}

\* the positions of word after which _break_into_syllables ends a syllable: a
\* vowel that is not the last character and whose next character is no vowel
BreaksAfter(word) ==
    {i \in 1..(Len(word) - 1) : IsVowel(word[i]) /\ ~IsVowel(word[i+1])}

\* the place of the i-th character of word in '-'.join(syllables)
PlaceInSyllables(word, i) == i + Cardinality({b \in BreaksAfter(word) : b < i})

\* _break_into_syllables: the characters of word in order, with a '-' after
\* every break
break_into_syllables(word) ==
    [j \in 1..(Len(word) + Cardinality(BreaksAfter(word))) |->
        IF \E i \in 1..Len(word) : PlaceInSyllables(word, i) = j
        THEN word[CHOOSE i \in 1..Len(word) : PlaceInSyllables(word, i) = j]
        ELSE 45]

\* " -> " with the arrow U+2192, as in f"{text} -> {syllables}"
Arrow == <<32, 8594, 32>>

\* add_pronunciation_guide: the dict it returns, 'text' and, for the targets
\* 'roman' and 'english' and a single word longer than 6 characters,
\* 'pronunciation'
add_pronunciation_guide(text, target_script) ==
    IF /\ target_script \in {"roman", "english"}
       /\ Len(Split(text)) = 1
       /\ Len(text) > 6
    THEN << <<"text", text>>,
            <<"pronunciation", text \o Arrow \o break_into_syllables(text)>> >>
    ELSE << <<"text", text>> >>

(***************************************************************************)
(* views.py: the tables of the two request handlers.                       *)
(***************************************************************************)

\* dict.get(key, default) on a dict given as a sequence of <<key, value>> pairs
DictGet(d, key, default) ==
    IF \E i \in 1..Len(d) : d[i][1] = key
    THEN d[CHOOSE i \in 1..Len(d) : d[i][1] = key][2]
    ELSE default

\* d[key] = value: an existing key keeps its place, a new key goes last
DictSet(d, key, value) ==
    IF \E i \in 1..Len(d) : d[i][1] = key
    THEN [i \in 1..Len(d) |-> IF d[i][1] = key THEN <<key, value>> ELSE d[i]]
    ELSE Append(d, <<key, value>>)

\* language_to_script of transliterate_image
image_language_to_script ==
    << <<"hi", "Devanagari">>, <<"mr", "Devanagari">>, <<"ta", "Tamil">>,
       <<"te", "Telugu">>,     <<"kn", "Kannada">>,    <<"ml", "Malayalam">>,
       <<"gu", "Gujarati">>,   <<"bn", "Bengali">>,    <<"pa", "Gurmukhi">>,
       <<"or", "Oriya">>,      <<"as", "Bengali">>,    <<"en", "ITRANS">> >>

\* language_to_script of transliterate_single
single_language_to_script ==
    << <<"hi", "Devanagari">>, <<"mr", "Devanagari">>, <<"ta", "Tamil">>,
       <<"te", "Telugu">>,     <<"kn", "Kannada">>,    <<"ml", "Malayalam">>,
       <<"gu", "Gujarati">>,   <<"bn", "Bengali">>,    <<"pa", "Gurmukhi">>,
       <<"or", "Oriya">>,      <<"as", "Bengali">>,    <<"en", "ITRANS">> >>

\* target_scripts of transliterate_image
image_target_scripts ==
    << <<"Devanagari (Hindi)", "Devanagari">>, <<"Devanagari (Marathi)", "Devanagari">>,
       <<"Tamil", "Tamil">>,         <<"Telugu", "Telugu">>,
       <<"Kannada", "Kannada">>,     <<"Malayalam", "Malayalam">>,
       <<"Gujarati", "Gujarati">>,   <<"Bengali", "Bengali">>,
       <<"Gurmukhi", "Gurmukhi">>,   <<"Oriya", "Oriya">>,
       <<"Roman", "ITRANS">> >>

\* single_target_scripts without the second Devanagari entry
single_target_scripts_ten ==
    << <<"Devanagari (Hindi)", "Devanagari">>,
       <<"Tamil", "Tamil">>,         <<"Telugu", "Telugu">>,
       <<"Kannada", "Kannada">>,     <<"Malayalam", "Malayalam">>,
       <<"Gujarati", "Gujarati">>,   <<"Bengali", "Bengali">>,
       <<"Gurmukhi", "Gurmukhi">>,   <<"Oriya", "Oriya">>,
       <<"Roman", "ITRANS">> >>

\* target_scripts of transliterate_single
single_target_scripts ==
    << <<"Devanagari (Hindi)", "Devanagari">>, <<"Devanagari (Marathi)", "Devanagari">>,
       <<"Tamil", "Tamil">>,         <<"Telugu", "Telugu">>,
       <<"Kannada", "Kannada">>,     <<"Malayalam", "Malayalam">>,
       <<"Gujarati", "Gujarati">>,   <<"Bengali", "Bengali">>,
       <<"Gurmukhi", "Gurmukhi">>,   <<"Oriya", "Oriya">>,
       <<"Roman", "ITRANS">> >>

(***************************************************************************)
(* The external collaborators: the OCR reader, langdetect's detect and     *)
(* aksharamukha's process.  Each either raises or returns a value.         *)
(***************************************************************************)

\* the script codes process is called with
ScriptCodes ==
    {"Devanagari", "Tamil", "Telugu", "Kannada", "Malayalam", "Gujarati",
     "Bengali", "Gurmukhi", "Oriya", "ITRANS"}

\* the first code point of the Unicode block of a script (0 for the Roman scheme)
BlockStart(script) ==
    CASE script = "Devanagari" -> 2304
      [] script = "Bengali"    -> 2432
      [] script = "Gurmukhi"   -> 2560
      [] script = "Gujarati"   -> 2688
      [] script = "Oriya"      -> 2816
      [] script = "Tamil"      -> 2944
      [] script = "Telugu"     -> 3072
      [] script = "Kannada"    -> 3200
      [] script = "Malayalam"  -> 3328
      [] OTHER                 -> 0

\* a capital letter that tells the scripts apart
ScriptInitial(script) ==
    CASE script = "Devanagari" -> 68     \* D
      [] script = "Bengali"    -> 66     \* B
      [] script = "Gurmukhi"   -> 80     \* P
      [] script = "Gujarati"   -> 71     \* G
      [] script = "Oriya"      -> 89     \* Y
      [] script = "Tamil"      -> 84     \* T
      [] script = "Telugu"     -> 85     \* U
      [] script = "Kannada"    -> 75     \* K
      [] script = "Malayalam"  -> 77     \* M
      [] OTHER                 -> 82     \* R

\* process(source, target, text) when it returns.  The library's tables are not
\* part of the repository: its output is a text that is determined by the three
\* arguments and carries what the formatter rewrites.  For an Indic target it
\* is the letter KA of the target's block, the source's initial, two spaces and
\* the text; for the Roman scheme it is the source's initial, an a-macron, two
\* spaces and the text.
process(source, target, text) ==
    IF BlockStart(target) > 0
    THEN <<BlockStart(target) + 21, ScriptInitial(source), 32, 32>> \o text
    ELSE <<ScriptInitial(source), 257, 32, 32>> \o text

\* detect raised instead of returning a tag
DetectRaises == "<raises>"

\* the form field is not part of the request
Absent == "<absent>"

\* request.POST.get(field, default)
PostGet(value, default) == IF value = Absent THEN default ELSE value

(***************************************************************************)
(* The inputs of the model.                                                *)
(***************************************************************************)

\* the text every long input text repeats: "abcdef "
Pattern == <<97, 98, 99, 100, 101, 102, 32>>

\* the first n characters of the repeated pattern
LongText(n) == [i \in 1..n |-> Pattern[((i - 1) % Len(Pattern)) + 1]]

\* the number of characters of the original text the failure message keeps
TruncateAt == 50

\* the longest input text is this much longer than what the message keeps
MaxExtra == 1

\* what the OCR reader returns, joined with spaces: nothing, blanks, Latin text
\* with a doubled space, a word of the corrections table, Devanagari with a
\* Latin capital, and texts around the cut-off length
OcrTexts ==
    { <<>>, <<32, 32>>,
      <<104, 101, 108, 108, 111, 32, 32, 119, 111, 114, 108, 100>>,        \* "hello  world"
      <<100, 73, 112, 65, 118, 97, 108, 73>>,         \* "dIpAvalI"
      <<2344, 2350, 2360, 2381, 2340, 2375, 32, 82>> }     \* namaste in Devanagari, then " R"
    \cup {LongText(TruncateAt + k) : k \in 0..MaxExtra}

\* what detect returns, or that it raises ("fr" is not in the language table)
DetectOutcomes == {"en", "hi", "ta", "fr", "unknown", "", DetectRaises}

\* the source_language form field
SourceLanguageFields == {Absent, "en", "ta", "fr"}

\* the target_language form field
TargetLanguageFields == {Absent, "hi", "bn", "fr"}

\* the Indic script codes
IndicCodes == ScriptCodes \ {"ITRANS"}

\* the sets of <<source, target>> pairs for which process raises: none; every
\* Indic source; every pair; and a mix (every source to Tamil and Devanagari,
\* the Indic sources to Bengali and ITRANS as well)
BrokenSets ==
    { {},
      IndicCodes \X ScriptCodes,
      ScriptCodes \X ScriptCodes,
      (ScriptCodes \X {"Tamil", "Devanagari"}) \cup (IndicCodes \X {"Bengali", "ITRANS"}) }

\* what request.FILES holds: no 'image', a file that is not an image, an image
Uploads == {"missing", "not_image", "image"}

\* str(e) of the exception the OCR step raises: RuntimeError('OCR failed'),
\* RuntimeError('')
ExceptionMessages == {"OCR failed", ""}

\* the OCR step returns, or raises an exception with a message
OcrOutcomes ==
    {[raises |-> FALSE, message |-> ""]}
        \cup {[raises |-> TRUE, message |-> m] : m \in ExceptionMessages}

(***************************************************************************)
(* The state: the position of the one request being served, the locals of  *)
(* its handler, the behaviour of process during it, and the calls made.    *)
(***************************************************************************)
VARIABLES
    pc,                      \* "idle", "convert", "loop", "respond" or "done"
    endpoint,                \* "image" (transliterate_image) or "single"
    broken,                  \* the <<source, target>> pairs for which process raises
    detect_outcome,          \* what detect returned, or DetectRaises
    extracted_text,
    detected_language,
    source_language,
    target_language,
    actual_source_language,
    source_script,
    target_script,
    transliterated_text,
    target_scripts,
    transliterations,        \* all_transliterations in transliterate_single
    idx,                     \* the place of the loop in target_scripts
    calls,                   \* the process calls made: <<entry, source, target, returned>>
    response                 \* the Response returned

(***************************************************************************)
(* The state of a direct use of the module's formatter instance: the       *)
(* method called last, its arguments and what it returned.                 *)
(***************************************************************************)
VARIABLES
    method,                  \* the method of formatter called last, "none" before any
    text_arg,                \* its text argument
    script_arg,              \* its target_script argument ("" when it has none)
    result,                  \* what it returned
    indian_branch,           \* clean_transliteration took  if is_indian_script:
    passes,                  \* how often clean_transliteration ran on its own output
    first_text               \* the text the first of these runs was given

formatter_vars ==
    <<method, text_arg, script_arg, result, indian_branch, passes, first_text>>

request_vars ==
    <<pc, endpoint, broken, detect_outcome, extracted_text, detected_language,
      source_language, target_language, actual_source_language, source_script,
      target_script, transliterated_text, target_scripts, transliterations,
      idx, calls, response>>

vars == <<request_vars, formatter_vars>>

\* no Response yet
NoResponse == [status |-> 0, body |-> [error |-> "none"]]

\* no request is being served and no method of formatter has been called
Init ==
    /\ pc = "idle"
    /\ endpoint = "none"
    /\ broken = {}
    /\ detect_outcome = ""
    /\ extracted_text = <<>>
    /\ detected_language = ""
    /\ source_language = ""
    /\ target_language = ""
    /\ actual_source_language = ""
    /\ source_script = ""
    /\ target_script = ""
    /\ transliterated_text = <<>>
    /\ target_scripts = <<>>
    /\ transliterations = <<>>
    /\ idx = 0
    /\ calls = <<>>
    /\ response = NoResponse
    /\ method = "none"
    /\ text_arg = <<>>
    /\ script_arg = ""
    /\ result = <<>>
    /\ indian_branch = FALSE
    /\ passes = 0
    /\ first_text = <<>>

\* the handler returns Response({'error': message}, status) before it
\* converts; source and target are its locals source_language and
\* target_language at that point ("" where they are not set)
ErrorResponse(ep, message, code, source, target) ==
    /\ pc' = "done"
    /\ endpoint' = ep
    /\ response' = [status |-> code, body |-> [error |-> message]]
    /\ source_language' = source
    /\ target_language' = target
    /\ UNCHANGED <<broken, detect_outcome, extracted_text, detected_language,
                   actual_source_language,
                   source_script, target_script, transliterated_text,
                   target_scripts, transliterations, idx, calls>>

\* the early returns the two handlers share: the upload checks, the OCR step
\* raising e into the outer except, which answers with str(e), and the
\* empty-text check.  transliterate_single reads source_language and
\* target_language after the first check.
EarlyReturn(ep, upload, ocr, text, source, target) ==
    IF upload = "missing"
    THEN ErrorResponse(ep, "No image file provided", 400, "", "")
    ELSE IF upload = "not_image"
    THEN ErrorResponse(ep, "Invalid file type. Please upload an image.", 400,
                       source, target)
    ELSE IF ocr.raises
    THEN ErrorResponse(ep,
             "An error occurred while processing the image: " \o ocr.message, 500,
             source, target)
    ELSE /\ text = <<>>
         /\ ErrorResponse(ep,
                "No text could be extracted from the image. Please ensure the image contains clear, readable text.", 400,
                source, target)

\* the request gets past the early returns
Accepted(upload, ocr, text) ==
    upload = "image" /\ ~ocr.raises /\ text # <<>>

\* detected_language of transliterate_image: 'unknown' when detect raises
image_detected_language(outcome) ==
    IF outcome = DetectRaises THEN "unknown" ELSE outcome

\* the English test of transliterate_image:
\* detected_language == 'en' or not detected_language or detected_language == 'unknown'
image_is_english(detected) ==
    detected = "en" \/ detected = "" \/ detected = "unknown"

\* source_script of transliterate_image
image_source_script(detected) ==
    IF image_is_english(detected) THEN "ITRANS"
    ELSE DictGet(image_language_to_script, detected, "ITRANS")

\* transliterate_image up to the loop over target_scripts
ImageStart ==
    /\ pc = "idle"
    /\ \E upload \in Uploads, ocr \in OcrOutcomes, raw \in OcrTexts,
          outcome \in DetectOutcomes, b \in BrokenSets :
          LET text == CollapseWhitespace(raw)
          IN  IF ~Accepted(upload, ocr, text)
              THEN EarlyReturn("image", upload, ocr, text, "", "")
              ELSE /\ pc' = "loop"
                   /\ endpoint' = "image"
                   /\ broken' = b
                   /\ detect_outcome' = outcome
                   /\ extracted_text' = text
                   /\ detected_language' = image_detected_language(outcome)
                   /\ source_script' = image_source_script(image_detected_language(outcome))
                   /\ target_scripts' = image_target_scripts
                   /\ transliterations' = <<>>
                   /\ idx' = 1
                   /\ UNCHANGED <<source_language, target_language,
                                  actual_source_language, target_script,
                                  transliterated_text, calls, response>>

\* detected_language of transliterate_single: the user's selection when detect raises
single_detected_language(outcome, declared) ==
    IF outcome = DetectRaises THEN declared ELSE outcome

\* single_actual_source_language without the test of the user's selection
single_actual_source_language_detected(detected, declared) ==
    IF detected = "en" THEN "en"
    ELSE IF detected # "unknown" THEN detected ELSE declared

\* actual_source_language of transliterate_single
single_actual_source_language(detected, declared) ==
    IF detected = "en" \/ declared = "en" THEN "en"
    ELSE IF detected # "unknown" THEN detected ELSE declared

\* single_source_script with the default of transliterate_image
single_source_script_roman(actual) ==
    DictGet(single_language_to_script, actual, "ITRANS")

\* source_script of transliterate_single
single_source_script(actual) ==
    DictGet(single_language_to_script, actual, "Devanagari")

\* target_script of transliterate_single
single_target_script(target) ==
    DictGet(single_language_to_script, target, "ITRANS")

\* transliterate_single up to the single conversion
SingleStart ==
    /\ pc = "idle"
    /\ \E upload \in Uploads, ocr \in OcrOutcomes, raw \in OcrTexts,
          outcome \in DetectOutcomes, b \in BrokenSets,
          source_field \in SourceLanguageFields,
          target_field \in TargetLanguageFields :
          LET text     == CollapseWhitespace(raw)
              declared == PostGet(source_field, "hi")
              target   == PostGet(target_field, "en")
              detected == single_detected_language(outcome, declared)
              actual   == single_actual_source_language(detected, declared)
          IN  IF ~Accepted(upload, ocr, text)
              THEN EarlyReturn("single", upload, ocr, text, declared, target)
              ELSE /\ pc' = "convert"
                   /\ endpoint' = "single"
                   /\ broken' = b
                   /\ detect_outcome' = outcome
                   /\ extracted_text' = text
                   /\ source_language' = declared
                   /\ target_language' = target
                   /\ detected_language' = detected
                   /\ actual_source_language' = actual
                   /\ source_script' = single_source_script(actual)
                   /\ target_script' = single_target_script(target)
                   /\ UNCHANGED <<transliterated_text, target_scripts,
                                  transliterations, idx, calls, response>>

(***************************************************************************)
(* The conversions.  A conversion yields the text it stores and the        *)
(* process calls it made, each <<source, target, returned>>.               *)
(***************************************************************************)

\* process(source, target, ...) raises
Raises(source, target) == <<source, target>> \in broken

\* formatted_text without the formatter: the converted text as it is
unformatted_text(transliterated, script_code) == transliterated

\* formatted_text = formatter.clean_transliteration(transliterated_text, script_code)
formatted_text(transliterated, script_code) ==
    clean_transliteration(transliterated, script_code)

\* fallback_source with the resolved source script again
fallback_source_resolved == source_script

\* the source of the fallback call: process('ITRANS', script_code, extracted_text)
fallback_source == "ITRANS"

\* "If all else fails, use original text": transliterations[script_name] = extracted_text
original_text(text, script_code) == text

\* all_targets_fallback without the fallback call: the original text at once
all_targets_no_fallback(script_code, text) ==
    [text |-> original_text(text, script_code), calls |-> <<>>]

\* the inner try of the loop body: the fallback call, and the original text
\* when it raises too
all_targets_fallback(script_code, text) ==
    IF Raises(fallback_source, script_code)
    THEN [text  |-> original_text(text, script_code),
          calls |-> << <<fallback_source, script_code, FALSE>> >>]
    ELSE [text  |-> formatted_text(process(fallback_source, script_code, text), script_code),
          calls |-> << <<fallback_source, script_code, TRUE>> >>]

\* the body of the loop over target_scripts, for one script_code: english is the
\* handler's English test, source its source_script
all_targets_entry(english, source, script_code, text) ==
    IF english /\ script_code = "ITRANS"
    THEN [text |-> formatted_text(text, script_code), calls |-> <<>>]
    ELSE LET from == IF english THEN "ITRANS" ELSE source
         IN  IF Raises(from, script_code)
             THEN [text  |-> all_targets_fallback(script_code, text).text,
                   calls |-> << <<from, script_code, FALSE>> >>
                                 \o all_targets_fallback(script_code, text).calls]
             ELSE [text  |-> formatted_text(process(from, script_code, text), script_code),
                   calls |-> << <<from, script_code, TRUE>> >>]

\* "[Transliteration failed: OCR output appears to be garbled. Original: "
FailurePrefix ==
    <<91, 84, 114, 97, 110, 115, 108, 105, 116, 101, 114, 97, 116, 105, 111, 110, 32,
      102, 97, 105, 108, 101, 100, 58, 32,
      79, 67, 82, 32,
      111, 117, 116, 112, 117, 116, 32,
      97, 112, 112, 101, 97, 114, 115, 32,
      116, 111, 32,
      98, 101, 32,
      103, 97, 114, 98, 108, 101, 100, 46, 32,
      79, 114, 105, 103, 105, 110, 97, 108, 58, 32>>

\* "...]"
FailureSuffix == <<46, 46, 46, 93>>

\* extracted_text[:n]
Prefix(text, n) == SubSeq(text, 1, IF Len(text) < n THEN Len(text) ELSE n)

\* failure_message with the whole text instead of extracted_text[:50]
failure_message_whole(text) == FailurePrefix \o text \o FailureSuffix

\* f"[Transliteration failed: ... Original: {extracted_text[:50]}...]"
failure_message(text) == FailurePrefix \o Prefix(text, TruncateAt) \o FailureSuffix

\* the inner try of the single conversion: the fallback call, and the failure
\* message when it raises too
single_fallback(target, text) ==
    IF Raises(fallback_source, target)
    THEN [text  |-> failure_message(text),
          calls |-> << <<fallback_source, target, FALSE>> >>]
    ELSE [text  |-> formatted_text(process(fallback_source, target, text), target),
          calls |-> << <<fallback_source, target, TRUE>> >>]

\* the single conversion of transliterate_single
single_conversion(actual, source, target, text) ==
    IF actual = "en" /\ target = "ITRANS"
    THEN [text |-> text, calls |-> <<>>]
    ELSE LET from == IF actual = "en" THEN "ITRANS" ELSE source
         IN  IF Raises(from, target)
             THEN [text  |-> single_fallback(target, text).text,
                   calls |-> << <<from, target, FALSE>> >>
                                 \o single_fallback(target, text).calls]
             ELSE [text  |-> formatted_text(process(from, target, text), target),
                   calls |-> << <<from, target, TRUE>> >>]

\* the calls of one conversion, each with the entry it was made for
CallsFor(entry, made) == [i \in 1..Len(made) |-> <<entry>> \o made[i]]

\* transliterate_single: the single conversion, then target_scripts and the
\* empty all_transliterations
SingleConvert ==
    /\ pc = "convert"
    /\ LET r == single_conversion(actual_source_language, source_script,
                                  target_script, extracted_text)
       IN  /\ transliterated_text' = r.text
           /\ calls' = calls \o CallsFor("single", r.calls)
    /\ target_scripts' = single_target_scripts
    /\ transliterations' = <<>>
    /\ idx' = 1
    /\ pc' = "loop"
    /\ UNCHANGED <<endpoint, broken, detect_outcome, extracted_text,
                   detected_language, source_language, target_language,
                   actual_source_language, source_script, target_script, response>>

\* entry_key with the script code for the key
entry_key_by_code(item) == item[2]

\* the key under which the loop stores an entry: script_name
entry_key(item) == item[1]

\* the English test of the loop: of the detected language in transliterate_image,
\* of the resolved one in transliterate_single
loop_is_english ==
    IF endpoint = "image" THEN image_is_english(detected_language)
    ELSE actual_source_language = "en"

\* one iteration of  for script_name, script_code in target_scripts.items()
ConvertNext ==
    /\ pc = "loop"
    /\ idx <= Len(target_scripts)
    /\ LET item == target_scripts[idx]
           r    == all_targets_entry(loop_is_english, source_script, item[2],
                                     extracted_text)
       IN  /\ transliterations' = DictSet(transliterations, entry_key(item), r.text)
           /\ calls' = calls \o CallsFor(item[1], r.calls)
    /\ idx' = idx + 1
    /\ pc' = IF idx = Len(target_scripts) THEN "respond" ELSE "loop"
    /\ UNCHANGED <<endpoint, broken, detect_outcome, extracted_text,
                   detected_language, source_language, target_language,
                   actual_source_language, source_script, target_script,
                   transliterated_text, target_scripts, response>>

\* response_data of the handler
response_data ==
    IF endpoint = "image"
    THEN [original_text     |-> extracted_text,
          detected_language |-> detected_language,
          transliterations  |-> transliterations]
    ELSE [original_text         |-> extracted_text,
          detected_language     |-> actual_source_language,
          target_language       |-> target_language,
          transliterated_text   |-> transliterated_text,
          all_transliterations  |-> transliterations]

\* return Response(response_data, status=status.HTTP_200_OK)
Respond ==
    /\ pc = "respond"
    /\ response' = [status |-> 200, body |-> response_data]
    /\ pc' = "done"
    /\ UNCHANGED <<endpoint, broken, detect_outcome, extracted_text,
                   detected_language, source_language, target_language,
                   actual_source_language, source_script, target_script,
                   transliterated_text, target_scripts, transliterations,
                   idx, calls>>

\* the Response has been sent and the handler's frame is gone: the next
\* request finds nothing of this one
Finish ==
    /\ pc = "done"
    /\ pc' = "idle"
    /\ endpoint' = "none"
    /\ broken' = {}
    /\ detect_outcome' = ""
    /\ extracted_text' = <<>>
    /\ detected_language' = ""
    /\ source_language' = ""
    /\ target_language' = ""
    /\ actual_source_language' = ""
    /\ source_script' = ""
    /\ target_script' = ""
    /\ transliterated_text' = <<>>
    /\ target_scripts' = <<>>
    /\ transliterations' = <<>>
    /\ idx' = 0
    /\ calls' = <<>>
    /\ response' = NoResponse

\* the steps of the two request handlers
Next ==
    \/ ImageStart /\ UNCHANGED formatter_vars
    \/ SingleStart /\ UNCHANGED formatter_vars
    \/ SingleConvert /\ UNCHANGED formatter_vars
    \/ ConvertNext /\ UNCHANGED formatter_vars
    \/ Respond /\ UNCHANGED formatter_vars
    \/ Finish /\ UNCHANGED formatter_vars

Spec == Init /\ [][Next]_vars

(***************************************************************************)
(* Direct calls of the formatter's methods: one call from the initial      *)
(* state, and clean_transliteration again on what it returned.             *)
(***************************************************************************)

\* the longest text made of the characters of TextAlphabet
MaxLen == 3

\* how often clean_transliteration is run in a row, each time on its own output
MaxPasses == 2

\* Devanagari NA, "R", "a" and the space
TextAlphabet == {2344, 82, 97, 32}

\* every text of at most MaxLen characters of TextAlphabet
ShortTexts == UNION {[1..n -> TextAlphabet] : n \in 0..MaxLen}

\* texts of the cases the formatter's branches tell apart
NamedTexts ==
    {
      <<100, 73, 112, 65, 118, 97, 108, 73>>,   \* "dIpAvalI"
      <<100, 105, 112, 65, 118, 97, 76, 105>>,   \* "dipAvaLi"
      <<68, 101, 101, 112, 97, 118, 97, 108, 105>>,   \* "Deepavali"
      <<97, 45, 98>>,   \* "a-b"
      <<104, 101, 108, 108, 111, 32, 119, 111, 114, 108, 100>>,   \* "hello world"
      <<112, 105, 116, 97, 97, 106, 105>>,   \* "pitaaji"
      <<112, 105, 116, 97, 32, 106, 105>>,   \* "pita ji"
      <<100, 101, 101, 112, 97, 109>>,   \* "deepam"
      <<65, 98, 45, 99, 100>>,   \* "Ab-cd"
      <<97, 98, 67, 100>>,   \* "abCd"
      <<65, 66, 67>>,   \* "ABC"
      <<97, 97, 66>>,   \* "aaB"
      <<97, 98, 99, 100, 69>>,   \* "abcdE"
      <<104, 101, 108, 108, 111, 32, 87, 79, 82, 76, 68, 32, 97, 66, 32, 112, 105, 116, 97, 97, 106, 105>>,   \* "hello WORLD aB pitaaji"
      <<45, 46>>,   \* "-."
      <<2344, 82, 83>>,   \* Devanagari NA, "RS"
      <<2344, 82, 2350>>,   \* Devanagari NA, "R", Devanagari MA
      <<2453, 82>>,   \* Bengali KA, "R"
      <<2581, 82>>,   \* Gurmukhi KA, "R"
      <<3349, 82>>,   \* Malayalam KA, "R"
      <<2835, 82>>,   \* Oriya O, "R"
      <<2980, 82>>,   \* Tamil TA, "R"
      <<3108, 82>>,   \* Telugu TA, "R"
      <<3221, 82>>,   \* Kannada KA, "R"
      <<2711, 82>>,   \* Gujarati GA, "R"
      <<72, 101, 108, 108, 111, 32, 2344, 2350, 2360, 2381, 2340, 2375>>,   \* "Hello ", namaste in Devanagari
      <<72, 101, 108, 108, 111, 32, 2453>>,   \* "Hello ", Bengali KA
      <<73, 110, 100, 105, 97, 32, 70, 97, 108, 108>>,   \* "India Fall"
      <<2929, 82, 32, 2344>>,   \* Oriya WA (a word character), "R ", Devanagari NA
      <<2418, 82>>,   \* Devanagari CANDRA A (a word character), "R"
      <<82, 2948>>,   \* "R", the unassigned U+0B84
      <<97, 28, 98>>    \* "a", the separator U+001C, "b"
    }

\* the keys of word_corrections
CorrectionKeys == {word_corrections[k][1] : k \in 1..Len(word_corrections)}

\* the texts the methods are called with
FormatterTexts == ShortTexts \cup NamedTexts \cup CorrectionKeys

\* the target_script arguments the methods are called with
FormatterTargets == {"ITRANS", "roman", "english", "Devanagari", "Bengali"}

\* formatter.clean_transliteration(text, target_script)
CleanTransliteration ==
    /\ method = "none"
    /\ \E text \in FormatterTexts, script \in FormatterTargets :
           /\ method' = "clean_transliteration"
           /\ text_arg' = text
           /\ script_arg' = script
           /\ result' = clean_transliteration(text, script)
           /\ indian_branch' = (text # <<>> /\ is_indian_script(text))
           /\ passes' = 1
           /\ first_text' = text
    /\ UNCHANGED request_vars

\* formatter.clean_transliteration(what the call before returned, target_script)
CleanAgain ==
    /\ method = "clean_transliteration"
    /\ passes < MaxPasses
    /\ method' = method
    /\ text_arg' = result
    /\ script_arg' = script_arg
    /\ result' = clean_transliteration(result, script_arg)
    /\ indian_branch' = (result # <<>> /\ is_indian_script(result))
    /\ passes' = passes + 1
    /\ first_text' = first_text
    /\ UNCHANGED request_vars

\* formatter._clean_indian_script(text)
CleanIndianScript ==
    /\ method = "none"
    /\ \E text \in FormatterTexts :
           /\ method' = "_clean_indian_script"
           /\ text_arg' = text
           /\ result' = clean_indian_script(text)
    /\ UNCHANGED <<script_arg, indian_branch, passes, first_text>>
    /\ UNCHANGED request_vars

\* formatter._format_for_english(text)
FormatForEnglish ==
    /\ method = "none"
    /\ \E text \in FormatterTexts :
           /\ method' = "_format_for_english"
           /\ text_arg' = text
           /\ result' = format_for_english(text)
    /\ UNCHANGED <<script_arg, indian_branch, passes, first_text>>
    /\ UNCHANGED request_vars

\* formatter.add_pronunciation_guide(text, target_script)
AddPronunciationGuide ==
    /\ method = "none"
    /\ \E text \in FormatterTexts, script \in FormatterTargets :
           /\ method' = "add_pronunciation_guide"
           /\ text_arg' = text
           /\ script_arg' = script
           /\ result' = add_pronunciation_guide(text, script)
    /\ UNCHANGED <<indian_branch, passes, first_text>>
    /\ UNCHANGED request_vars

\* the calls of the formatter's methods
FormatterNext ==
    \/ CleanTransliteration
    \/ CleanAgain
    \/ CleanIndianScript
    \/ FormatForEnglish
    \/ AddPronunciationGuide

FormatterSpec == Init /\ [][FormatterNext]_vars

(***************************************************************************)
(* The claims.                                                             *)
(***************************************************************************)

\* the request was accepted and its loop over target_scripts has ended
LoopEnded == pc \in {"respond", "done"} /\ target_scripts # <<>>

\* the source of the primary call of the loop
LoopSource == IF loop_is_english THEN "ITRANS" ELSE source_script

\* the loop takes the no-conversion path for this script code
LoopKeeps(script_code) == loop_is_english /\ script_code = "ITRANS"

\* d has the key
HasKey(d, key) == \E i \in 1..Len(d) : d[i][1] = key

\* the text stored for the k-th entry of target_scripts
Stored(k) == DictGet(transliterations, target_scripts[k][1], <<>>)

\* the calls made for an entry
CallsOf(entry) == SelectSeq(calls, LAMBDA c : c[1] = entry)

\* C1: in the all-targets loop of both handlers, when the primary call
\* process(A, X, text) raises and process('ITRANS', X, text) returns, the
\* entry for X is clean_transliteration(process('ITRANS', X, text), X) and
\* is not the extracted text.
C1_FallbackResult ==
    LoopEnded =>
        \A k \in 1..Len(target_scripts) :
            LET name == target_scripts[k][1]
                code == target_scripts[k][2]
            IN  (~LoopKeeps(code) /\ Raises(LoopSource, code) /\ ~Raises("ITRANS", code))
                    => /\ HasKey(transliterations, name)
                       /\ Stored(k) = clean_transliteration(
                                          process("ITRANS", code, extracted_text), code)
                       /\ Stored(k) # extracted_text

\* a finished request whose Tamil entry came from the fallback call after the
\* call from Devanagari raised
C1_Witness ==
    /\ pc = "done"
    /\ response.status = 200
    /\ source_script = "Devanagari"
    /\ Raises("Devanagari", "Tamil")
    /\ ~Raises("ITRANS", "Tamil")
    /\ CallsOf("Tamil") = << <<"Tamil", "Devanagari", "Tamil", FALSE>>,
                             <<"Tamil", "ITRANS", "Tamil", TRUE>> >>
    /\ DictGet(transliterations, "Tamil", <<>>)
           = clean_transliteration(process("ITRANS", "Tamil", extracted_text), "Tamil")

\* process raises for every pair of script codes
AlwaysRaises == broken = ScriptCodes \X ScriptCodes

\* C2: in the all-targets loop of both handlers, when the primary call and
\* the fallback call both raise for a target, the target's entry is the
\* extracted text itself, unchanged; when process raises for every pair this
\* is so for every target.
C2_OriginalText ==
    LoopEnded =>
        /\ \A k \in 1..Len(target_scripts) :
               LET name == target_scripts[k][1]
                   code == target_scripts[k][2]
               IN  (~LoopKeeps(code) /\ Raises(LoopSource, code) /\ Raises("ITRANS", code))
                       => /\ HasKey(transliterations, name)
                          /\ Stored(k) = extracted_text
        /\ AlwaysRaises
               => \A k \in 1..Len(target_scripts) :
                      /\ HasKey(transliterations, target_scripts[k][1])
                      /\ Stored(k) = extracted_text

\* "Transliteration failed"
TransliterationFailed == <<84, 114, 97, 110, 115, 108, 105, 116, 101, 114, 97, 116, 105, 111, 110, 32, 102, 97, 105, 108, 101, 100>>

\* the single conversion calls process, and both its calls raise
SingleBothRaise ==
    /\ endpoint = "single"
    /\ pc \in {"loop", "respond", "done"}
    /\ target_script # ""
    /\ ~(actual_source_language = "en" /\ target_script = "ITRANS")
    /\ Raises(IF actual_source_language = "en" THEN "ITRANS" ELSE source_script,
              target_script)
    /\ Raises("ITRANS", target_script)

\* C3: in transliterate_single, when the primary call and the fallback call
\* both raise, transliterated_text is the failure message: it contains
\* "Transliteration failed", embeds the first 50 characters of the extracted
\* text and no more, is not the extracted text, and the handler goes on to
\* answer 200 with it.
C3_FailureMessage ==
    SingleBothRaise =>
        /\ Contains(transliterated_text, TransliterationFailed)
        /\ transliterated_text
               = FailurePrefix \o Prefix(extracted_text, 50) \o FailureSuffix
        /\ Len(transliterated_text) <= Len(FailurePrefix) + 50 + Len(FailureSuffix)
        /\ transliterated_text # extracted_text
        /\ pc = "done" => /\ response.status = 200
                          /\ response.body.transliterated_text = transliterated_text

\* a finished single request with a text longer than 50 characters, both calls
\* raised and the message cut
C3_Witness ==
    /\ SingleBothRaise
    /\ pc = "done"
    /\ Len(extracted_text) > 50
    /\ Len(transliterated_text) = Len(FailurePrefix) + 50 + Len(FailureSuffix)
    /\ ~Contains(transliterated_text, extracted_text)
    /\ Len(CallsOf("single")) = 2

\* the keys of a dict, in order
Keys(d) == [i \in 1..Len(d) |-> d[i][1]]

\* C4: once a request is accepted (its text is not empty), whatever the
\* language and whatever calls raise, the loop has an iteration to take until
\* every entry of target_scripts has been handled, the mapping holds exactly
\* the entries handled so far in the order of target_scripts, and the handler
\* answers 200 with a mapping that has exactly one entry for every entry of
\* target_scripts, in that order.
C4_FullMapping ==
    /\ pc = "loop"
           => /\ idx \in 1..Len(target_scripts)
              /\ Keys(transliterations) = Keys(SubSeq(target_scripts, 1, idx - 1))
    /\ LoopEnded => Keys(transliterations) = Keys(target_scripts)
    /\ (pc = "done" /\ extracted_text # <<>>)
           => /\ response.status = 200
              /\ Keys(IF endpoint = "image" THEN response.body.transliterations
                      ELSE response.body.all_transliterations) = Keys(target_scripts)

\* a finished transliterate_image request in which some calls raised and
\* others did not, with its eleven entries
C4_Witness ==
    /\ pc = "done"
    /\ endpoint = "image"
    /\ response.status = 200
    /\ \E c \in 1..Len(calls) : calls[c][4]
    /\ \E c \in 1..Len(calls) : ~calls[c][4]
    /\ Keys(response.body.transliterations) = Keys(image_target_scripts)
    /\ Len(response.body.transliterations) = 11

\* the single conversion has been made
SingleConverted ==
    endpoint = "single" /\ pc \in {"loop", "respond", "done"} /\ target_script # ""

\* the single conversion takes the no-conversion path
SingleKeeps == actual_source_language = "en" /\ target_script = "ITRANS"

\* the source of the primary call of the single conversion
SingleSource == IF actual_source_language = "en" THEN "ITRANS" ELSE source_script

\* C5: when the source is English (en, empty or unknown) and the target is
\* ITRANS, the result equals the whitespace-collapsed extracted text character
\* for character, in the all-targets loop and in the single conversion, and
\* process is not called for that target.
C5_KeepsText ==
    /\ (LoopEnded /\ loop_is_english)
           => \A k \in 1..Len(target_scripts) :
                  target_scripts[k][2] = "ITRANS"
                      => /\ Stored(k) = extracted_text
                         /\ CallsOf(target_scripts[k][1]) = <<>>
    /\ (SingleConverted /\ SingleKeeps)
           => /\ transliterated_text = extracted_text
              /\ CallsOf("single") = <<>>

\* what the k-th iteration of the loop had in hand before storing: the output
\* of the call that returned, or the extracted text when none was made or none
\* returned
LoopUnformatted(k) ==
    LET code == target_scripts[k][2]
    IN  IF LoopKeeps(code) THEN extracted_text
        ELSE IF ~Raises(LoopSource, code) THEN process(LoopSource, code, extracted_text)
        ELSE IF ~Raises("ITRANS", code) THEN process("ITRANS", code, extracted_text)
        ELSE extracted_text

\* C6 as stated: every entry of the all-targets mapping, and the single
\* transliterated_text on the no-conversion, primary and fallback paths, is
\* clean_transliteration of the text the path produced.
C6_AllFormatted ==
    /\ LoopEnded
           => \A k \in 1..Len(target_scripts) :
                  Stored(k) = clean_transliteration(LoopUnformatted(k),
                                                    target_scripts[k][2])
    /\ (SingleConverted /\ SingleKeeps)
           => transliterated_text = clean_transliteration(extracted_text, target_script)
    /\ (SingleConverted /\ ~SingleKeeps /\ ~Raises(SingleSource, target_script))
           => transliterated_text
                  = clean_transliteration(
                        process(SingleSource, target_script, extracted_text), target_script)
    /\ (SingleConverted /\ ~SingleKeeps /\ Raises(SingleSource, target_script)
            /\ ~Raises("ITRANS", target_script))
           => transliterated_text
                  = clean_transliteration(
                        process("ITRANS", target_script, extracted_text), target_script)

\* C6 amended: every text stored from a process call that returned, primary or
\* fallback, in the all-targets loop and in the single conversion, is
\* clean_transliteration(output of the call, script code).
C6_ConvertedFormatted ==
    /\ LoopEnded
           => \A k \in 1..Len(target_scripts) :
                  LET code == target_scripts[k][2]
                  IN  /\ (~LoopKeeps(code) /\ ~Raises(LoopSource, code))
                             => Stored(k) = clean_transliteration(
                                     process(LoopSource, code, extracted_text), code)
                      /\ (~LoopKeeps(code) /\ Raises(LoopSource, code)
                              /\ ~Raises("ITRANS", code))
                             => Stored(k) = clean_transliteration(
                                     process("ITRANS", code, extracted_text), code)
    /\ (SingleConverted /\ ~SingleKeeps /\ ~Raises(SingleSource, target_script))
           => transliterated_text
                  = clean_transliteration(
                        process(SingleSource, target_script, extracted_text), target_script)
    /\ (SingleConverted /\ ~SingleKeeps /\ Raises(SingleSource, target_script)
            /\ ~Raises("ITRANS", target_script))
           => transliterated_text
                  = clean_transliteration(
                        process("ITRANS", target_script, extracted_text), target_script)

\* a finished single request whose primary call returned a text that the
\* formatter changes, stored formatted, and whose loop entries are all
\* formatted as well
C6_Witness ==
    /\ SingleConverted
    /\ pc = "done"
    /\ ~SingleKeeps
    /\ CallsOf("single") = << <<"single", SingleSource, target_script, TRUE>> >>
    /\ process(SingleSource, target_script, extracted_text) # transliterated_text
    /\ transliterated_text
           = clean_transliteration(
                 process(SingleSource, target_script, extracted_text), target_script)
    /\ \A k \in 1..Len(target_scripts) :
           Stored(k) = clean_transliteration(LoopUnformatted(k), target_scripts[k][2])

\* the entries process can be called for
Entries == {"single"} \cup {image_target_scripts[k][1] : k \in 1..Len(image_target_scripts)}

\* C7: for each target process is called at most twice: a primary call and,
\* only after the primary call raised, one fallback call whose source is
\* ITRANS whatever the resolved source, for the same target; nothing follows
\* a fallback call.
C7_AtMostTwoCalls ==
    \A e \in Entries :
        LET made == CallsOf(e)
        IN  /\ Len(made) <= 2
            /\ Len(made) >= 1
                   => made[1][2] = (IF e = "single" THEN SingleSource ELSE LoopSource)
            /\ Len(made) = 2
                   => /\ ~made[1][4]
                      /\ made[2][2] = "ITRANS"
                      /\ made[2][3] = made[1][3]

\* a finished request from a Tamil source in which one entry took a primary
\* call only, the Bengali entry a raising primary call and a fallback call that
\* returned, and the Devanagari entry two raising calls
C7_Witness ==
    /\ pc = "done"
    /\ source_script = "Tamil"
    /\ CallsOf("Telugu") = << <<"Telugu", "Tamil", "Telugu", TRUE>> >>
    /\ CallsOf("Bengali") = << <<"Bengali", "Tamil", "Bengali", FALSE>>,
                               <<"Bengali", "ITRANS", "Bengali", TRUE>> >>
    /\ CallsOf("Devanagari (Hindi)")
           = << <<"Devanagari (Hindi)", "Tamil", "Devanagari", FALSE>>,
                <<"Devanagari (Hindi)", "ITRANS", "Devanagari", FALSE>> >>

\* the handler has resolved its source script
Resolved == pc \in {"convert", "loop", "respond", "done"} /\ source_script # ""

\* the tag is a key of the language table
InTable(tag) == HasKey(image_language_to_script, tag)

\* the tag the handler looks up: the detected language in transliterate_image,
\* the resolved source language in transliterate_single
LookedUp == IF endpoint = "image" THEN detected_language ELSE actual_source_language

\* C8 as stated: in both handlers the source script comes from the language
\* table, and a tag that is en, empty, unknown or not in the table resolves
\* to ITRANS.
C8_DefaultsToRoman ==
    Resolved =>
        IF LookedUp \in {"en", "", "unknown"} \/ ~InTable(LookedUp)
        THEN source_script = "ITRANS"
        ELSE source_script = DictGet(image_language_to_script, LookedUp, "")

\* C8 amended: in both handlers a tag of the language table resolves to the
\* table's script (en to ITRANS).  A tag that is empty, unknown or not in the
\* table resolves to ITRANS in transliterate_image and to Devanagari in
\* transliterate_single, where the tag looked up is the resolved source
\* language.
C8_SourceResolution ==
    Resolved =>
        /\ InTable(LookedUp)
               => source_script = DictGet(image_language_to_script, LookedUp, "")
        /\ LookedUp = "en" => source_script = "ITRANS"
        /\ ~InTable(LookedUp)
               => source_script = (IF endpoint = "image" THEN "ITRANS" ELSE "Devanagari")

\* a transliterate_single request whose resolved source language, fr, is not in
\* the table and whose source script is Devanagari
C8_Witness ==
    /\ Resolved
    /\ endpoint = "single"
    /\ actual_source_language = "fr"
    /\ ~InTable("fr")
    /\ source_script = "Devanagari"

\* C9: in transliterate_single, if detect returned en or the user declared en,
\* the resolved source language is en and the source script ITRANS; otherwise
\* it is the detected language, or the declared one when detect returned
\* unknown or raised.
C9_EnglishFirst ==
    (Resolved /\ endpoint = "single") =>
        IF detect_outcome = "en" \/ source_language = "en"
        THEN actual_source_language = "en" /\ source_script = "ITRANS"
        ELSE IF detect_outcome \in {"unknown", DetectRaises}
        THEN actual_source_language = source_language
        ELSE actual_source_language = detect_outcome

\* a transliterate_single request in which detect returned hi and the user
\* declared en
C9_Witness ==
    /\ Resolved
    /\ endpoint = "single"
    /\ detect_outcome = "hi"
    /\ source_language = "en"
    /\ actual_source_language = "en"
    /\ source_script = "ITRANS"

\* the entries of a target list that map to the script code
MappedTo(list, code) == {k \in 1..Len(list) : list[k][2] = code}

\* C10 as stated: the target list is the same in every request of both
\* handlers, has exactly 10 named entries, and exactly one of them, "Roman",
\* maps to ITRANS.
C10_TenTargets ==
    target_scripts # <<>> =>
        /\ target_scripts = image_target_scripts
        /\ Len(target_scripts) = 10
        /\ \E k \in 1..Len(target_scripts) :
               MappedTo(target_scripts, "ITRANS") = {k} /\ target_scripts[k][1] = "Roman"

\* C10 amended: the target list is the same in every request of both
\* handlers, has exactly 11 named entries for 10 script codes (Devanagari is
\* listed for Hindi and for Marathi), and exactly one of them, "Roman", maps
\* to ITRANS.
C10_ElevenTargets ==
    target_scripts # <<>> =>
        /\ Keys(target_scripts)
               = <<"Devanagari (Hindi)", "Devanagari (Marathi)", "Tamil", "Telugu",
                   "Kannada", "Malayalam", "Gujarati", "Bengali", "Gurmukhi",
                   "Oriya", "Roman">>
        /\ Len(target_scripts) = 11
        /\ Cardinality({target_scripts[k][2] : k \in 1..Len(target_scripts)}) = 10
        /\ Cardinality(MappedTo(target_scripts, "Devanagari")) = 2
        /\ \E k \in 1..Len(target_scripts) :
               MappedTo(target_scripts, "ITRANS") = {k} /\ target_scripts[k][1] = "Roman"

\* a transliterate_single request in its loop, with the list of eleven that
\* transliterate_image uses as well
C10_Witness ==
    /\ endpoint = "single"
    /\ pc = "loop"
    /\ Len(target_scripts) = 11
    /\ target_scripts = image_target_scripts

(***************************************************************************)
(* The claims about the formatter.                                         *)
(***************************************************************************)

\* every character of s is ASCII
IsAsciiText(s) == \A i \in 1..Len(s) : s[i] < 128

\* clean_transliteration has run twice in a row, first on first_text and then
\* on what that call returned (text_arg)
SecondPass == method = "clean_transliteration" /\ passes = 2

\* C11: clean_transliteration is idempotent on ASCII input: for every ASCII
\* text x and every target t, clean_transliteration(clean_transliteration(x, t), t)
\* equals clean_transliteration(x, t).
C11_Idempotent ==
    (SecondPass /\ IsAsciiText(first_text)) => result = text_arg

\* s has a character of one of the eight blocks that _clean_indian_script
\* lists: Devanagari, Bengali, Gurmukhi, Gujarati, Tamil, Telugu, Kannada,
\* Malayalam
HasIndicCharacter(s) == \E i \in 1..Len(s) : InIndianScripts(s[i])

\* C12: clean_transliteration takes the Indic branch (_clean_indian_script, no
\* word or character corrections) if and only if at least one character of the
\* text lies in one of the eight Indic blocks; a text without such a character,
\* the empty and the punctuation-only text included, takes the other branch.
C12_IndicBranch ==
    method = "clean_transliteration"
        => (indian_branch <=> HasIndicCharacter(text_arg))

\* the i-th character of s is a capital A-Z with an Indic character right
\* before or right after it
CapitalNextToIndic(s, i) ==
    /\ IsAsciiUpper(s[i])
    /\ \/ i > 1 /\ InIndianScripts(s[i-1])
       \/ i < Len(s) /\ InIndianScripts(s[i+1])

\* C13: for every text x with at least one Indic character,
\* _clean_indian_script(x) has no capital A-Z right before, right after or
\* between Indic characters, has the length of x, and differs from x only in
\* Latin letters that were lowercased.
C13_NoCapitalNextToIndic ==
    (method = "_clean_indian_script" /\ HasIndicCharacter(text_arg))
        => /\ Len(result) = Len(text_arg)
           /\ \A i \in 1..Len(result) : ~CapitalNextToIndic(result, i)
           /\ \A i \in 1..Len(text_arg) :
                  \/ result[i] = text_arg[i]
                  \/ IsAsciiUpper(text_arg[i]) /\ result[i] = text_arg[i] + 32

\* C14: for every key k of word_corrections and every target,
\* clean_transliteration(k, target) is the canonical form word_corrections[k];
\* the character replacements and the casing do not alter it.
C14_CanonicalForm ==
    (method = "clean_transliteration" /\ passes = 1 /\ text_arg \in CorrectionKeys)
        => result = DictGet(word_corrections, text_arg, <<>>)

\* C15: when the text given to clean_transliteration has both an uppercase
\* Latin letter and an Indic character, every exact-case occurrence of a word
\* of english_to_indian_corrections is replaced in the result by its Indic
\* substitution.
C15_EnglishWordsReplaced ==
    (/\ method = "clean_transliteration"
     /\ passes = 1
     /\ has_english_caps(text_arg)
     /\ has_indian_script(text_arg))
        => \A k \in 1..Len(english_to_indian_corrections) :
               Contains(text_arg, english_to_indian_corrections[k][1])
                   => /\ ~Contains(result, english_to_indian_corrections[k][1])
                      /\ Contains(result, english_to_indian_corrections[k][2])

\* the words _format_for_english works on: the whitespace-separated words of
\* the text with its long-vowel diacritics written out
WordsOf(s) == Split(ReplaceAll(s, vowel_length_mappings, 1))

\* the word is fully uppercase
FullyUpper(w) == StrIsUpper(w)

\* the word is in Title Case: first letter upper, rest lower
InTitleCase(w) == IsUpperChar(w[1]) /\ StrIsLower(Tail(w))

\* the word has one of the digraphs aa, ee, ii, oo, uu
HasDoubledVowel(w) ==
    \E i \in 1..(Len(w) - 1) : w[i] = w[i+1] /\ w[i] \in {97, 101, 105, 111, 117}

\* C16: _format_for_english returns the words of the text joined by single
\* spaces, where a word that is fully uppercase or already in Title Case is
\* unchanged, and any other word is title-cased if it has a doubled vowel, is
\* longer than 4 characters or is entirely lowercase, and unchanged if not.
C16_TitleCaseHeuristic ==
    method = "_format_for_english" =>
        LET words == WordsOf(text_arg)
            out   == Split(result)
        IN  /\ Len(out) = Len(words)
            /\ result = Join(out, <<32>>)
            /\ \A i \in 1..Len(words) :
                   LET w == words[i]
                   IN  IF FullyUpper(w) \/ InTitleCase(w)
                       THEN out[i] = w
                       ELSE IF HasDoubledVowel(w) \/ Len(w) > 4 \/ StrIsLower(w)
                            THEN out[i] = Title(w)
                            ELSE out[i] = w

\* _format_for_english("hello WORLD aB pitaaji") = "Hello WORLD aB Pitaaji":
\* an uppercase word and a short mixed-case word kept, a lowercase word and
\* a word with "aa" title-cased
C16_Witness ==
    /\ method = "_format_for_english"
    /\ text_arg = <<104, 101, 108, 108, 111, 32, 87, 79, 82, 76, 68, 32, 97, 66, 32,
                    112, 105, 116, 97, 97, 106, 105>>
    /\ result = <<72, 101, 108, 108, 111, 32, 87, 79, 82, 76, 68, 32, 97, 66, 32,
                  80, 105, 116, 97, 97, 106, 105>>

\* the values of a dict
Values(d) == {d[i][2] : i \in 1..Len(d)}

\* a syllable break follows the i-th character of w: it is a vowel, a next
\* character exists and is not a vowel
SyllableBreak(w, i) == IsVowel(w[i]) /\ i < Len(w) /\ ~IsVowel(w[i+1])

\* r is w with a '-' after exactly the characters a syllable break follows
IsSegmentation(r, w) ==
    LET breaks   == {i \in 1..Len(w) : SyllableBreak(w, i)}
        place(i) == i + Cardinality({b \in breaks : b < i})
    IN  /\ Len(r) = Len(w) + Cardinality(breaks)
        /\ \A i \in 1..Len(w) :
               /\ r[place(i)] = w[i]
               /\ i \in breaks => r[place(i) + 1] = 45

\* the result of add_pronunciation_guide has the syllable-segmented rendering
\* of the text
HasSegmentation ==
    \E v \in Values(result) :
        \E j \in 1..Len(v) : IsSegmentation(SubSeq(v, j, Len(v)), text_arg)

\* C17: for a Roman target the result of add_pronunciation_guide has, for
\* every digraph aa, ee, ii, oo, uu of the text, that digraph annotated with
\* its hint string, and, when the text is a single word longer than 6
\* characters, the syllable-segmented rendering of the text.
C17_PronunciationGuide ==
    (method = "add_pronunciation_guide" /\ script_arg \in {"roman", "english"})
        => /\ \A k \in 1..Len(pronunciation_replacements) :
                  Contains(text_arg, pronunciation_replacements[k][1])
                      => \E v \in Values(result) :
                             Contains(v, pronunciation_replacements[k][2])
           /\ (Len(Split(text_arg)) = 1 /\ Len(text_arg) > 6) => HasSegmentation

====
